---- MODULE Spec2Model ----
(***************************************************************************)
(* htcache: an in-memory key/value cache behind an HTTP interface.         *)
(*                                                                         *)
(* The model follows src/src/main.rs: the CacheService (a HashMap from a   *)
(* 64-bit hash of the key to a CacheRecord), the request handlers          *)
(* cache_get / cache_put, the body filter of cache_put, and the cache_gc   *)
(* task, all sharing one tokio Mutex.  Utc::now() is the variable `now`;   *)
(* every call of Utc::now() in the source is one read of `now`, and the    *)
(* clock may advance between any two steps (action Tick).  One unit of     *)
(* `now` is 1/TicksPerSec of a second, so that the truncation done by      *)
(* num_seconds() is part of the model.                                     *)
(***************************************************************************)
EXTENDS Integers, FiniteSets, Sequences, TLC

\* ------------------------------------------------------------------ bounds
\* Last instant of the clock that the model explores.
MaxTime == 3

\* ------------------------------------------------------- program constants
\* Clock resolution: Duration::seconds(ttl) is ttl * TicksPerSec clock units,
\* num_seconds() divides by it and truncates.
TicksPerSec == 2
\* Option<u32>::None for the ttl (a u32 is never negative).
NoTtl == -1
\* Option<String>::None for the content type.
NoType == "<none>"
\* CacheService::new(128)
Capacity == 128

\* ------------------------------------------------------------- input sets
Handlers == {"h1", "h2"}
Reaper == "gc"
Free == "free"
\* no request is being served
NoKey == "<none>"
Keys == {"a", "b", "c"}
\* the PUT requests' body and Content-Type header (absent or given)
Payloads == {[content |-> "v1", content_type |-> NoType],
             [content |-> "v2", content_type |-> "json"]}
\* the PUT requests' X-TTL header: absent, 0 or positive
Ttls == {NoTtl, 0, 1}

VARIABLES
    now,      \* Utc::now()
    storage,  \* CacheService.storage: identifier -> CacheRecord
    lock,     \* owner of the tokio Mutex, or Free
    pc,       \* position of each request-handling task
    hkey,     \* the `name` of the request a handler is serving
    chk,      \* instant at which record.get() evaluated is_expired()
    rpc,      \* position of the cache_gc task
    todo,     \* identifiers retain() has not visited yet
    pre,      \* history: storage as it stood when the sweep started
    gcAt,     \* history: instant at which retain() evaluated each record
    gcStart,  \* history: instant at which the sweep was granted the lock
    sweeps,   \* history: the sweeps completed so far (kept by SweepSpec only)
    last,     \* history: last record inserted under each identifier, with its key
    ser,      \* history: store obtained by applying the finished operations one at a time
    capacity, \* CacheService.capacity, set by CacheService::new
    ev        \* history: what the step just taken produced (response or sweep)

vars == <<now, storage, lock, pc, hkey, chk, rpc, todo, pre, gcAt, gcStart, sweeps,
          last, ser, capacity, ev>>

\* ----------------------------------------------------------------- helpers
\* CacheService::hash: a deterministic map from the key to a fixed-width
\* identifier.  The identifier space is smaller than the key space, so two
\* keys share an identifier ("a" and "c" here).
hash(key) == IF key = "b" THEN 2 ELSE 1

Ids == {hash(k) : k \in Keys}

NoEv == [kind |-> "none"]
EmptyMap == [i \in {} |-> 0]

\* is_expired with the comparison made inclusive (<= for <)
is_expired_inclusive(record, t) ==
    /\ record.expires # NoTtl
    /\ record.created + record.expires * TicksPerSec <= t

\* is_expired with an absent ttl taken as 0 (unwrap_or(0) for map_or(false, ..))
is_expired_unset(record, t) ==
    record.created
    + (IF record.expires = NoTtl THEN 0 ELSE record.expires) * TicksPerSec < t

\* CacheRecord::is_expired, with Utc::now() = t
is_expired(record, t) ==
    /\ record.expires # NoTtl
    /\ record.created + record.expires * TicksPerSec < t

\* CacheRecord::get_age, with Utc::now() = t
get_age(record, t) == (t - record.created) \div TicksPerSec

\* the Content-Type header without the text/plain default
content_type_header_raw(record) == record.content_type

\* CacheRecord::get_content_type().unwrap_or("text/plain")
content_type_header(record) ==
    IF record.content_type = NoType THEN "text/plain" ELSE record.content_type

\* HashMap::insert
Insert(map, id, record) ==
    [i \in DOMAIN map \cup {id} |-> IF i = id THEN record ELSE map[i]]

\* HashMap removal of one entry, as retain() does for a rejected entry
Remove(map, id) == [i \in DOMAIN map \ {id} |-> map[i]]

\* set that keeps an existing entry (entry().or_insert(..) for insert(..))
set_keep(map, key, val, ttl, content_type, t) ==
    IF hash(key) \in DOMAIN map THEN map
    ELSE [i \in DOMAIN map \cup {hash(key)} |->
            IF i = hash(key)
            THEN [created |-> t, expires |-> ttl, content |-> val,
                  content_type |-> content_type]
            ELSE map[i]]

\* set merging into the old record: a request without ttl or content type
\* keeps those of the record it replaces
set_merge(map, key, val, ttl, content_type, t) ==
    LET old == hash(key) \in DOMAIN map IN
    Insert(map, hash(key),
           [created |-> t,
            expires |-> IF old /\ ttl = NoTtl
                        THEN map[hash(key)].expires ELSE ttl,
            content |-> val,
            content_type |-> IF old /\ content_type = NoType
                             THEN map[hash(key)].content_type
                             ELSE content_type])

\* CacheService::set, with Utc::now() = t
set(map, key, val, ttl, content_type, t) ==
    Insert(map, hash(key),
           [created |-> t, expires |-> ttl, content |-> val,
            content_type |-> content_type])

\* CacheService::get
get(map, key) == IF hash(key) \in DOMAIN map THEN {map[hash(key)]} ELSE {}

\* retain() with the closure's negation dropped: keeps the expired entries
retain_one_inverted(map, id, t) ==
    IF is_expired(map[id], t) THEN map ELSE [i \in DOMAIN map \ {id} |-> map[i]]

\* retain() dropping every entry that has a ttl, expired or not
retain_one_ttl(map, id, t) ==
    IF map[id].expires # NoTtl THEN [i \in DOMAIN map \ {id} |-> map[i]] ELSE map

\* shrink_to taken for a truncation of the map to min_capacity entries
shrink_to_evict(map, min_capacity) ==
    [i \in {j \in DOMAIN map :
               Cardinality({k \in DOMAIN map : k <= j}) <= min_capacity}
     |-> map[i]]

\* HashMap::shrink_to: gives allocated space back, down to min_capacity or
\* to the number of entries if that is larger; the entries are untouched
shrink_to(map, min_capacity) == map

\* retain() comparing with <= where the read gate compares with <
retain_one_inclusive(map, id, t) ==
    IF is_expired_inclusive(map[id], t) THEN Remove(map, id) ELSE map

\* retain() with a closure that keeps every entry
retain_one_all(map, id, t) == map

\* The closure of retain() applied to one entry, with Utc::now() = t
retain_one(map, id, t) == IF is_expired(map[id], t) THEN Remove(map, id) ELSE map

\* ------------------------------------------------------------------- Init
Init ==
    /\ now = 0
    /\ storage = EmptyMap
    /\ lock = Free
    /\ pc = [p \in Handlers |-> "idle"]
    /\ hkey = [p \in Handlers |-> NoKey]
    /\ chk = 0
    /\ rpc = "sleep"
    /\ todo = {}
    /\ pre = EmptyMap
    /\ gcAt = EmptyMap
    /\ gcStart = 0
    /\ sweeps = <<>>
    /\ last = EmptyMap
    /\ ser = EmptyMap
    /\ capacity = Capacity
    /\ ev = NoEv

\* ------------------------------------------------------------------ clock
Tick ==
    /\ now < MaxTime
    /\ now' = now + 1
    /\ ev' = NoEv
    /\ UNCHANGED <<storage, lock, pc, hkey, chk, rpc, todo, pre, gcAt, gcStart, last,
                   ser, sweeps, capacity>>

\* ------------------------------------------------------------ GET /{key}
\* handlers::cache_get is called and reaches cache.lock().await.  The `name`
\* of the request plays no part before the lookup, so it is drawn there.
GetStart(p) ==
    /\ pc[p] = "idle"
    /\ pc' = [pc EXCEPT ![p] = "get_wait"]
    /\ ev' = NoEv
    /\ UNCHANGED <<now, storage, lock, hkey, chk, rpc, todo, pre, gcAt, gcStart, last,
                   ser, sweeps, capacity>>

\* the lock is granted; CacheService::get looks the identifier of `name` up
GetLock(p, key) ==
    /\ pc[p] = "get_wait"
    /\ lock = Free
    /\ lock' = p
    /\ pc' = [pc EXCEPT ![p] = "get_locked"]
    /\ hkey' = [hkey EXCEPT ![p] = key]
    /\ ev' = NoEv
    /\ UNCHANGED <<now, storage, chk, rpc, todo, pre, gcAt, gcStart, last, ser, sweeps,
                   capacity>>

LastPut(key) == IF hash(key) \in DOMAIN last THEN {last[hash(key)]} ELSE {}

\* The expiration rule of the specification (section 3): a Record is expired
\* iff its ttl is present and created + ttl < t.  The properties below are
\* stated with it; the code's own predicate is is_expired.
Expired(record, t) ==
    /\ record.expires # NoTtl
    /\ record.created + record.expires * TicksPerSec < t

\* history: what the store held under the key's identifier before a PUT:
\* nothing, a live record or an expired one, with its content and the key
\* it was stored under
Prior(key, t) ==
    IF get(storage, key) = {}
    THEN [state |-> "absent", content |-> "", key |-> NoKey]
    ELSE [state |-> IF Expired(storage[hash(key)], t) THEN "expired" ELSE "live",
          content |-> storage[hash(key)].content,
          key |-> last[hash(key)].key]

GetEvent(p, status, body, ctype, age, at, agedAt) ==
    [kind |-> "get", key |-> hkey[p], status |-> status, body |-> body,
     ctype |-> ctype, age |-> age, at |-> at, agedAt |-> agedAt,
     seen |-> get(storage, hkey[p]), lastput |-> LastPut(hkey[p])]

\* the lookup and check of a handler that drops the guard before it builds
\* the 200
GetCheck_release(p) ==
    /\ pc[p] = "get_locked"
    /\ LET found == get(storage, hkey[p]) IN
       IF found = {} \/ (\E r \in found : is_expired(r, now))
       THEN /\ pc' = [pc EXCEPT ![p] = "idle"]
            /\ hkey' = [hkey EXCEPT ![p] = NoKey]
            /\ ev' = GetEvent(p, 404, "", NoType, -1, now, -1)
            /\ chk' = 0
       ELSE /\ pc' = [pc EXCEPT ![p] = "get_age"]
            /\ chk' = now
            /\ ev' = NoEv
            /\ UNCHANGED hkey
    /\ lock' = Free
    /\ UNCHANGED <<now, storage, rpc, todo, pre, gcAt, gcStart, last, ser, sweeps,
                   capacity>>

\* `if let Some(record)` and `record.get()`: the record is absent or expired
\* (the guard is dropped, then the 404 is built), or it is live and the
\* handler goes on to build the 200 while holding the guard
GetCheck(p) ==
    /\ pc[p] = "get_locked"
    /\ LET found == get(storage, hkey[p]) IN
       IF found = {} \/ (\E r \in found : is_expired(r, now))
       THEN /\ lock' = Free
            /\ pc' = [pc EXCEPT ![p] = "idle"]
            /\ hkey' = [hkey EXCEPT ![p] = NoKey]
            /\ ev' = GetEvent(p, 404, "", NoType, -1, now, -1)
            /\ chk' = 0
       ELSE /\ pc' = [pc EXCEPT ![p] = "get_age"]
            /\ chk' = now
            /\ ev' = NoEv
            /\ UNCHANGED <<lock, hkey>>
    /\ UNCHANGED <<now, storage, rpc, todo, pre, gcAt, gcStart, last, ser, sweeps,
                   capacity>>

\* the 200 response of a handler that never drops the guard
GetReply_keep(p) ==
    /\ pc[p] = "get_age"
    /\ LET record == storage[hash(hkey[p])] IN
       ev' = GetEvent(p, 200, record.content, content_type_header(record),
                      get_age(record, now), chk, now)
    /\ pc' = [pc EXCEPT ![p] = "idle"]
    /\ hkey' = [hkey EXCEPT ![p] = NoKey]
    /\ chk' = 0
    /\ UNCHANGED <<now, storage, lock, rpc, todo, pre, gcAt, gcStart, last, ser,
                   sweeps, capacity>>

\* the 200 response: Content-Type, Age (a second read of the clock), body;
\* the guard is dropped when the response is built
GetReply(p) ==
    /\ pc[p] = "get_age"
    /\ LET record == storage[hash(hkey[p])] IN
       ev' = GetEvent(p, 200, record.content, content_type_header(record),
                      get_age(record, now), chk, now)
    /\ lock' = Free
    /\ pc' = [pc EXCEPT ![p] = "idle"]
    /\ hkey' = [hkey EXCEPT ![p] = NoKey]
    /\ chk' = 0
    /\ UNCHANGED <<now, storage, rpc, todo, pre, gcAt, gcStart, last, ser, sweeps,
                   capacity>>

\* ------------------------------------------------------------ PUT /{key}
\* filters::cache_put: String::from_utf8(body).expect(..) panics on a body
\* that is not UTF-8: the task serving the connection unwinds, no response
\* is written, the handler is never called
PutPanic(p) ==
    /\ pc[p] = "idle"
    /\ ev' = [kind |-> "put", utf8 |-> FALSE, status |-> 0, panicked |-> TRUE]
    /\ UNCHANGED <<now, storage, lock, pc, hkey, chk, rpc, todo, pre, gcAt, gcStart,
                   last, ser, sweeps, capacity>>

\* the body is UTF-8: handlers::cache_put is called and reaches
\* cache.lock().await.  The request's name, body and headers play no part
\* before CacheService::set, so they are drawn there.
PutStart(p) ==
    /\ pc[p] = "idle"
    /\ pc' = [pc EXCEPT ![p] = "put_wait"]
    /\ ev' = NoEv
    /\ UNCHANGED <<now, storage, lock, hkey, chk, rpc, todo, pre, gcAt, gcStart, last,
                   ser, sweeps, capacity>>

\* set called without waiting for the guard
PutLock_nowait(p) ==
    /\ pc[p] = "put_wait"
    /\ lock' = p
    /\ pc' = [pc EXCEPT ![p] = "put_locked"]
    /\ ev' = NoEv
    /\ UNCHANGED <<now, storage, hkey, chk, rpc, todo, pre, gcAt, gcStart, last, ser,
                   sweeps, capacity>>

\* the lock is granted to handlers::cache_put
PutLock(p) ==
    /\ pc[p] = "put_wait"
    /\ lock = Free
    /\ lock' = p
    /\ pc' = [pc EXCEPT ![p] = "put_locked"]
    /\ ev' = NoEv
    /\ UNCHANGED <<now, storage, hkey, chk, rpc, todo, pre, gcAt, gcStart, last, ser,
                   sweeps, capacity>>

\* CacheService::set under the guard, the guard is dropped, 201 Created
PutSet(p, key, val, ttl, content_type) ==
    /\ pc[p] = "put_locked"
    /\ storage' = set(storage, key, val, ttl, content_type, now)
    /\ lock' = Free
    /\ pc' = [pc EXCEPT ![p] = "idle"]
    /\ LET record == [created |-> now, expires |-> ttl, content |-> val,
                       content_type |-> content_type] IN
       /\ last' = Insert(last, hash(key), [key |-> key, record |-> record])
       /\ ser' = Insert(ser, hash(key), record)
       /\ ev' = [kind |-> "put", key |-> key, utf8 |-> TRUE, status |-> 201,
                 panicked |-> FALSE, record |-> record,
                 prior |-> Prior(key, now)]
    /\ UNCHANGED <<now, hkey, chk, rpc, todo, pre, gcAt, gcStart, sweeps, capacity>>

\* ----------------------------------------------------------------- Reaper
\* interval.tick() completes; cache_gc reaches cache.lock().await
GcTick ==
    /\ rpc = "sleep"
    /\ rpc' = "wait"
    /\ ev' = NoEv
    /\ UNCHANGED <<now, storage, lock, pc, hkey, chk, todo, pre, gcAt, gcStart, last,
                   ser, sweeps, capacity>>

\* the lock is granted; CacheService::gc starts retain() over the entries
GcLock ==
    /\ rpc = "wait"
    /\ lock = Free
    /\ lock' = Reaper
    /\ rpc' = "gc"
    /\ todo' = DOMAIN storage
    /\ pre' = storage
    /\ gcAt' = EmptyMap
    /\ gcStart' = now
    /\ ev' = NoEv
    /\ UNCHANGED <<now, storage, pc, hkey, chk, last, ser, sweeps, capacity>>

\* retain() visits one entry, in the map's iteration order (any order), and
\* calls is_expired() on it, which reads the clock
GcVisit(id) ==
    /\ rpc = "gc"
    /\ id \in todo
    /\ storage' = retain_one(storage, id, now)
    /\ todo' = todo \ {id}
    /\ gcAt' = Insert(gcAt, id, now)
    /\ ev' = NoEv
    /\ UNCHANGED <<now, lock, pc, hkey, chk, rpc, pre, gcStart, last, ser, sweeps,
                   capacity>>

\* the sweep of a task that ends after its first pass (no loop around it)
GcFinish_once ==
    /\ rpc = "gc"
    /\ todo = {}
    /\ lock' = Free
    /\ rpc' = "stopped"
    /\ ser' = storage
    /\ storage' = storage
    /\ ev' = [kind |-> "gc", pre |-> pre, at |-> gcAt, post |-> storage,
              start |-> gcStart, end |-> now]
    /\ pre' = EmptyMap
    /\ gcAt' = EmptyMap
    /\ gcStart' = 0
    /\ UNCHANGED <<now, pc, hkey, chk, todo, last, capacity>>

\* retain() is over; shrink_to(self.capacity); the guard is dropped and the
\* loop goes back to interval.tick()
GcFinish ==
    /\ rpc = "gc"
    /\ todo = {}
    /\ lock' = Free
    /\ rpc' = "sleep"
    /\ ser' = [i \in {j \in DOMAIN ser :
                        ~(j \in DOMAIN gcAt /\ is_expired(ser[j], gcAt[j]))}
               |-> ser[i]]
    /\ storage' = shrink_to(storage, capacity)
    /\ ev' = [kind |-> "gc", pre |-> pre, at |-> gcAt, post |-> storage',
              start |-> gcStart, end |-> now]
    /\ pre' = EmptyMap
    /\ gcAt' = EmptyMap
    /\ gcStart' = 0
    /\ UNCHANGED <<now, pc, hkey, chk, todo, last, capacity>>

GcDone == GcFinish /\ UNCHANGED sweeps

\* ------------------------------------------------------------------- Next
Next ==
    \/ Tick
    \/ \E p \in Handlers : GetStart(p)
    \/ \E p \in Handlers, key \in Keys : GetLock(p, key)
    \/ \E p \in Handlers : GetCheck(p)
    \/ \E p \in Handlers : GetReply(p)
    \/ \E p \in Handlers : PutPanic(p)
    \/ \E p \in Handlers : PutStart(p)
    \/ \E p \in Handlers : PutLock(p)
    \/ \E p \in Handlers, key \in Keys, req \in Payloads, ttl \in Ttls :
           PutSet(p, key, req.content, ttl, req.content_type)
    \/ GcTick
    \/ GcLock
    \/ \E id \in Ids : GcVisit(id)
    \/ GcDone

Spec == Init /\ [][Next]_vars

\* ------------------------------------------------- sweeps without writes
\* The Reaper alone, on any store the requests can have built: used for the
\* properties of consecutive sweeps with no write in between.
Records(t) ==
    [created : 0..t, expires : Ttls,
     content : {q.content : q \in Payloads},
     content_type : {q.content_type : q \in Payloads}]

SweepInit ==
    /\ now \in 0..MaxTime
    /\ storage \in UNION {[S -> {r \in Records(now) :
                                    \E q \in Payloads :
                                        /\ r.content = q.content
                                        /\ r.content_type = q.content_type}]
                           : S \in SUBSET Ids}
    /\ last = [i \in DOMAIN storage |->
                  [key |-> CHOOSE k \in Keys : hash(k) = i, record |-> storage[i]]]
    /\ ser = storage
    /\ lock = Free
    /\ pc = [p \in Handlers |-> "idle"]
    /\ hkey = [p \in Handlers |-> NoKey]
    /\ chk = 0
    /\ rpc = "sleep"
    /\ todo = {}
    /\ pre = EmptyMap
    /\ gcAt = EmptyMap
    /\ gcStart = 0
    /\ sweeps = <<>>
    /\ capacity = Capacity
    /\ ev = NoEv

\* the sweep is over: remember it, and the one before it
SweepDone ==
    /\ GcFinish
    /\ sweeps' = IF Len(sweeps) < 2 THEN Append(sweeps, ev')
                 ELSE <<sweeps[2], ev'>>

SweepNext ==
    \/ Tick
    \/ GcTick
    \/ GcLock
    \/ \E id \in Ids : GcVisit(id)
    \/ SweepDone

SweepSpec == SweepInit /\ [][SweepNext]_vars

\* ------------------------------------------ a store above its capacity
\* The same program with the service constructed by CacheService::new with a
\* capacity below the number of identifiers, so that the number of entries
\* exceeds the capacity target.
SmallCapacity == 1

CapInit ==
    /\ now = 0
    /\ storage = EmptyMap
    /\ lock = Free
    /\ pc = [p \in Handlers |-> "idle"]
    /\ hkey = [p \in Handlers |-> NoKey]
    /\ chk = 0
    /\ rpc = "sleep"
    /\ todo = {}
    /\ pre = EmptyMap
    /\ gcAt = EmptyMap
    /\ gcStart = 0
    /\ sweeps = <<>>
    /\ last = EmptyMap
    /\ ser = EmptyMap
    /\ capacity = SmallCapacity
    /\ ev = NoEv

CapSpec == CapInit /\ [][Next]_vars

\* ------------------------------------------------------ fair scheduling
\* The program under the scheduling the runtime gives it, on a smaller set
\* of requests (two keys, one payload, ttl absent or 0, a shorter clock):
\*  - the interval timer fires again and again (GcTick);
\*  - tokio's Mutex grants the lock in FIFO order, so a task that waits for
\*    it is granted it once the earlier holders have released it (strong
\*    fairness of GcLock);
\*  - a task that holds the lock runs on: nothing is awaited between the
\*    grant and the release (GetCheck, GetReply, PutSet, GcVisit, GcDone).
\* Requests need not arrive, and the clock need not advance.
MaxLiveTime == 1
LiveKeys == {"a", "b"}
LivePayloads == {[content |-> "v1", content_type |-> NoType]}
LiveTtls == {NoTtl, 0}

LiveTick == now < MaxLiveTime /\ Tick

LivePut(p) ==
    \E key \in LiveKeys, req \in LivePayloads, ttl \in LiveTtls :
        PutSet(p, key, req.content, ttl, req.content_type)

LiveNext ==
    \/ LiveTick
    \/ \E p \in Handlers : GetStart(p)
    \/ \E p \in Handlers, key \in LiveKeys : GetLock(p, key)
    \/ \E p \in Handlers : GetCheck(p)
    \/ \E p \in Handlers : GetReply(p)
    \/ \E p \in Handlers : PutStart(p)
    \/ \E p \in Handlers : PutLock(p)
    \/ \E p \in Handlers : LivePut(p)
    \/ GcTick
    \/ GcLock
    \/ \E id \in Ids : GcVisit(id)
    \/ GcDone

Fairness ==
    /\ WF_vars(GcTick)
    /\ SF_vars(GcLock)
    /\ WF_vars(\E id \in Ids : GcVisit(id))
    /\ WF_vars(GcDone)
    /\ \A p \in Handlers :
         /\ WF_vars(GetCheck(p))
         /\ WF_vars(GetReply(p))
         /\ WF_vars(LivePut(p))

LiveSpec == Init /\ [][LiveNext]_vars /\ Fairness

\* =============================================================== properties
IsGet == ev.kind = "get"
IsPut == ev.kind = "put" /\ ev.utf8
IsGc == ev.kind = "gc"
\* the instant at which a Record with a ttl stops being fresh
Deadline(record) == record.created + record.expires * TicksPerSec
HeaderOf(record) ==
    IF record.content_type = NoType THEN "text/plain" ELSE record.content_type

\* ----------------------------------------------------------------------- C1
\* C1 as stated: a GET of a key whose last PUT (through the key's identifier)
\* was to that key and carried ttl = t answers 404 when performed at or after
\* created + t, and the stored value when performed strictly before.
C1_ExpiryAtOrAfter ==
    IsGet =>
      \A l \in ev.lastput :
        (l.key = ev.key /\ l.record.expires # NoTtl) =>
          /\ ev.at >= Deadline(l.record) => ev.status = 404
          /\ ev.at < Deadline(l.record) =>
               ev.status = 200 /\ ev.body = l.record.content

\* C1 amended: the boundary instant created + t still returns the value; the
\* GET answers 404 when performed strictly after created + t and the stored
\* value when performed at or before created + t.
C1_ExpiryStrictlyAfter ==
    IsGet =>
      \A l \in ev.lastput :
        (l.key = ev.key /\ l.record.expires # NoTtl) =>
          /\ ev.at > Deadline(l.record) => ev.status = 404 /\ ev.body = ""
          /\ ev.at <= Deadline(l.record) =>
               ev.status = 200 /\ ev.body = l.record.content

\* a GET performed exactly at created + t, for a positive t, returned the value
C1_Witness ==
    /\ IsGet
    /\ ev.status = 200
    /\ \E l \in ev.lastput :
         /\ l.key = ev.key
         /\ l.record.expires > 0
         /\ ev.at = Deadline(l.record)
         /\ ev.body = l.record.content

\* ----------------------------------------------------------------------- C2
\* C2: GET answers 200 with the content and the stored content type (or
\* text/plain) exactly when the store holds, under the key's identifier, a
\* Record that is not expired at the time of the read; otherwise (nothing
\* ever stored, Record swept, Record expired and not yet swept) 404 with an
\* empty body.
C2_GetStatus ==
    IsGet =>
      LET live == {r \in ev.seen : ~Expired(r, ev.at)} IN
        /\ ev.status \in {200, 404}
        /\ ev.status = 200 <=> live # {}
        /\ \A r \in live :
             /\ ev.body = r.content
             /\ ev.ctype = HeaderOf(r)
        /\ live = {} => ev.body = ""
        /\ ev.lastput = {} => ev.status = 404

\* a GET found a Record that was expired and not yet swept, and answered 404
C2_Witness ==
    /\ IsGet
    /\ ev.status = 404
    /\ \E r \in ev.seen : Expired(r, ev.at)

\* ----------------------------------------------------------------------- C3
\* C3: when a sweep ends, the store holds exactly the entries it held when
\* the sweep began whose Records were not expired when the sweep examined
\* them, each unchanged; no key is added; every Record expired when the sweep
\* began is removed and every removed Record is expired when the sweep ends.
C3_SweepResult ==
    IsGc =>
      /\ DOMAIN ev.post \subseteq DOMAIN ev.pre
      /\ DOMAIN ev.at = DOMAIN ev.pre
      /\ \A i \in DOMAIN ev.pre :
           /\ ev.start <= ev.at[i] /\ ev.at[i] <= ev.end
           /\ i \in DOMAIN ev.post <=> ~Expired(ev.pre[i], ev.at[i])
           /\ i \in DOMAIN ev.post => ev.post[i] = ev.pre[i]
           /\ Expired(ev.pre[i], ev.start) => i \notin DOMAIN ev.post
           /\ i \notin DOMAIN ev.post => Expired(ev.pre[i], ev.end)
      /\ storage = ev.post

\* a sweep removed an expired Record and kept a Record whose ttl had not
\* run out
C3_Witness ==
    /\ IsGc
    /\ \E i \in DOMAIN ev.pre : i \notin DOMAIN ev.post
    /\ \E i \in DOMAIN ev.post : ev.post[i].expires # NoTtl

\* ----------------------------------------------------------------------- C4
\* C4: under every interleaving of the handlers and the Reaper, whenever no
\* sweep is in progress the store equals the store obtained by applying the
\* finished operations one at a time in the order they finished; no PUT is
\* lost (an identifier holds the Record of the last PUT made through it, or
\* nothing once that Record has expired); and a 200 response carries the
\* content and the content type of one Record, as a PUT stored it.
C4_SerialEquivalent ==
    /\ rpc # "gc" => storage = ser
    /\ DOMAIN storage \subseteq DOMAIN last
    /\ \A i \in DOMAIN last :
         IF i \in DOMAIN storage
         THEN storage[i] = last[i].record
         ELSE Expired(last[i].record, now)
    /\ (IsGet /\ ev.status = 200) =>
         \E l \in ev.lastput :
           /\ ev.seen = {l.record}
           /\ ev.body = l.record.content
           /\ ev.ctype = HeaderOf(l.record)

\* one handler holds the lock over a non-empty store while the other handler
\* and the Reaper wait for it
C4_Witness ==
    /\ \E p \in Handlers, q \in Handlers :
         /\ p # q
         /\ pc[p] = "put_locked"
         /\ pc[q] = "get_wait"
         /\ lock = p
    /\ rpc = "wait"
    /\ DOMAIN storage = Ids

\* ----------------------------------------------------------------------- C5
\* C5 as stated: a 200 response to GET for a key carries content last stored
\* under that same key, and a PUT replaces only a Record stored under its own
\* key.
C5_NoAliasing ==
    /\ (IsGet /\ ev.status = 200) => \A l \in ev.lastput : l.key = ev.key
    /\ (IsPut /\ ev.prior.state # "absent") => ev.prior.key = ev.key

\* ----------------------------------------------------------------------- C6
\* C6 as stated: a PUT whose body is not UTF-8 is answered with a client
\* error and no panic occurs in the task handling it.
C6_BadBodyRecovered ==
    (ev.kind = "put" /\ ~ev.utf8) => (ev.status = 400 /\ ~ev.panicked)

\* ----------------------------------------------------------------------- C7
\* C7: a GET of key k that follows a PUT of k with no clock advance since
\* the PUT answers 200 with exactly the PUT's body, its content type
\* (text/plain when it gave none) and age 0, whatever the ttl.
C7_RoundTrip ==
    IsGet =>
      \A l \in ev.lastput :
        (l.key = ev.key /\ l.record.created = ev.at) =>
          /\ ev.status = 200
          /\ ev.body = l.record.content
          /\ ev.ctype = HeaderOf(l.record)
          /\ ev.agedAt = ev.at => ev.age = 0

\* the round trip of a PUT with X-TTL: 0, read back at the instant of the PUT
C7_Witness ==
    /\ IsGet
    /\ ev.status = 200
    /\ ev.age = 0
    /\ ev.agedAt = ev.at
    /\ \E l \in ev.lastput :
         /\ l.key = ev.key
         /\ l.record.expires = 0
         /\ l.record.created = ev.at

\* ----------------------------------------------------------------------- C8
\* C8: every PUT that reaches the handler answers 201 and leaves, under the
\* key's identifier, exactly its own Record, whether the identifier held a
\* live Record, an expired one or none; and a 200 response to GET carries the
\* content of the last PUT, never that of an earlier one.
C8_Overwrite ==
    /\ IsPut =>
         /\ ev.status = 201
         /\ hash(ev.key) \in DOMAIN storage
         /\ storage[hash(ev.key)] = ev.record
         /\ ev.record.created = now
         /\ ev.prior.state \in {"absent", "live", "expired"}
    /\ (IsGet /\ ev.status = 200) =>
         /\ ev.lastput # {}
         /\ \A l \in ev.lastput : ev.body = l.record.content

\* a PUT replaced a live Record of the same key that held another content
C8_Witness ==
    /\ IsPut
    /\ ev.prior.state = "live"
    /\ ev.prior.key = ev.key
    /\ ev.prior.content # ev.record.content
    /\ storage[hash(ev.key)].content = ev.record.content

\* ----------------------------------------------------------------------- C9
\* C9: a Record stored without ttl stays in the store, unchanged, until a
\* PUT replaces it: every sweep keeps it and every GET returns it, however
\* far the clock has advanced.
C9_NoTtlImmortal ==
    /\ \A i \in DOMAIN last :
         last[i].record.expires = NoTtl =>
           i \in DOMAIN storage /\ storage[i] = last[i].record
    /\ IsGet =>
         \A l \in ev.lastput :
           l.record.expires = NoTtl =>
             ev.status = 200 /\ ev.body = l.record.content
    /\ IsGc =>
         \A i \in DOMAIN ev.pre :
           ev.pre[i].expires = NoTtl => i \in DOMAIN ev.post

\* a Record without ttl, older than the longest ttl in use, is returned
C9_Witness ==
    /\ IsGet
    /\ ev.status = 200
    /\ \E l \in ev.lastput :
         /\ l.record.expires = NoTtl
         /\ \A t \in Ttls : ev.at > l.record.created + t * TicksPerSec

\* ---------------------------------------------------------------------- C10
\* C10: of two sweeps in a row with no write in between, the second starts
\* from the result of the first; together they leave what one sweep leaves
\* that examines each Record when the last of the two examined it; and when
\* the clock has not advanced over the two, the second removes nothing.
C10_SweepTwice ==
    Len(sweeps) = 2 =>
      LET e1 == sweeps[1]
          e2 == sweeps[2]
          when(i) == IF i \in DOMAIN e2.at THEN e2.at[i] ELSE e1.at[i]
          once == {i \in DOMAIN e1.pre : ~Expired(e1.pre[i], when(i))}
      IN /\ e2.pre = e1.post
         /\ e2.post = [i \in once |-> e1.pre[i]]
         /\ e2.end = e1.start => e2.post = e1.post

\* two sweeps in a row at one instant, the first of which removed a Record
\* and kept another
C10_Witness ==
    /\ Len(sweeps) = 2
    /\ sweeps[2].end = sweeps[1].start
    /\ \E i \in DOMAIN sweeps[1].pre : i \notin DOMAIN sweeps[1].post
    /\ sweeps[2].post # EmptyMap

\* ---------------------------------------------------------------------- C11
\* C11: in every step, an entry leaves the store only in a step of the
\* Reaper's sweep and only if its Record is expired; a step of a GET changes
\* nothing in the store; a PUT changes nothing under any identifier but its
\* key's, and always adds its Record, whatever the number of entries; so
\* the number of entries is not bounded by the capacity.
C11_Removal ==
    [][/\ \A i \in DOMAIN storage :
            i \notin DOMAIN storage' =>
              /\ rpc = "gc"
              /\ lock = Reaper
              /\ Expired(storage[i], now)
       /\ \A p \in Handlers :
            (pc[p] \in {"idle", "get_wait", "get_locked", "get_age"}
             /\ pc'[p] \in {"get_wait", "get_locked", "get_age", "idle"}
             /\ pc'[p] # pc[p]) => storage' = storage
       /\ (ev'.kind = "put" /\ ev'.utf8) =>
            /\ \A i \in Ids \ {hash(ev'.key)} :
                 /\ i \in DOMAIN storage <=> i \in DOMAIN storage'
                 /\ i \in DOMAIN storage => storage'[i] = storage[i]
            /\ hash(ev'.key) \in DOMAIN storage'
            /\ DOMAIN storage' = DOMAIN storage \cup {hash(ev'.key)}
      ]_vars

\* a sweep has just ended over a store that holds more entries than the
\* capacity target, none of them expired, and has kept them all
C11_Witness ==
    /\ IsGc
    /\ Cardinality(DOMAIN ev.post) > capacity
    /\ ev.post = ev.pre
    /\ storage = ev.post

\* ---------------------------------------------------------------------- C12
\* the tasks that are inside a Store operation (get, set or gc)
InStore ==
    {p \in Handlers : pc[p] \in {"get_locked", "get_age", "put_locked"}}
    \cup (IF rpc = "gc" THEN {Reaper} ELSE {})
\* the tasks that have asked for the lock and not been granted it
Waiting ==
    {p \in Handlers : pc[p] \in {"get_wait", "put_wait"}}
    \cup (IF rpc = "wait" THEN {Reaper} ELSE {})
OneInStore ==
    /\ Cardinality(InStore) <= 1
    /\ \A t \in InStore : lock = t
    /\ InStore = {} <=> lock = Free

\* C12: at every instant at most one task is inside a Store operation and it
\* is the holder of the lock; the store changes only in a step of the holder;
\* and while the lock is held no waiting task enters a Store operation.
C12_OneAtATime ==
    [][/\ OneInStore
       /\ OneInStore'
       /\ storage' # storage => (lock # Free /\ lock \in InStore)
       /\ lock # Free => \A t \in Waiting : t \notin InStore'
      ]_vars

\* the Reaper is in the middle of a sweep while one handler waits to read and
\* the other waits to write
C12_Witness ==
    /\ rpc = "gc"
    /\ todo # {}
    /\ lock = Reaper
    /\ \E p \in Handlers, q \in Handlers :
         pc[p] = "get_wait" /\ pc[q] = "put_wait"

\* ---------------------------------------------------------------------- C13
\* C13: whatever requests and sweeps have taken place, another sweep is
\* completed later: sweeps are completed infinitely often.
C13_SweepsForever == []<>IsGc

\* a sweep over a non-empty store has just ended while a handler is waiting
\* for the lock
C13_Witness ==
    /\ IsGc
    /\ DOMAIN ev.pre # {}
    /\ \E p \in Handlers : pc[p] \in {"get_wait", "put_wait"}

\* ---------------------------------------------------------------------- C14
ExpiredIn(id) == id \in DOMAIN storage /\ Expired(storage[id], now)

\* C14: a record that is in the store and expired does not stay there for
\* ever: it is removed by a sweep, unless a PUT replaces it by a new record
\* (which is not expired when it is written).
C14_ExpiredRemoved == \A id \in Ids : ExpiredIn(id) ~> ~ExpiredIn(id)

\* a sweep has just removed a record that was expired when the sweep began
\* and that is the last one written under its identifier
C14_Witness ==
    /\ IsGc
    /\ \E id \in DOMAIN ev.pre :
         /\ Expired(ev.pre[id], ev.start)
         /\ id \notin DOMAIN storage
         /\ last[id].record = ev.pre[id]

\* ---------------------------------------------------------------------- C15
\* the steps a handler takes while it holds the lock
HandlerStep(p) ==
    \/ GetCheck(p)
    \/ GetReply(p)
    \/ \E key \in Keys, req \in Payloads, ttl \in Ttls :
         PutSet(p, key, req.content, ttl, req.content_type)

\* the steps the Reaper takes while it holds the lock
ReaperStep == (\E id \in Ids : GcVisit(id)) \/ GcDone

\* the grant of the lock to a task that waits for it
Grant ==
    \/ \E p \in Handlers, key \in Keys : GetLock(p, key)
    \/ \E p \in Handlers : PutLock(p)
    \/ GcLock

\* C15: no task asks for the lock while it holds it; a task whose operation
\* is over does not hold the lock; the holder of the lock can always take
\* its next step, and when the lock is free a waiting task can be granted
\* it: while some task waits, some task can progress.
C15_NoDeadlock ==
    /\ lock \notin Waiting
    /\ \A p \in Handlers : pc[p] = "idle" => lock # p
    /\ rpc = "sleep" => lock # Reaper
    /\ \A p \in Handlers : lock = p => ENABLED HandlerStep(p)
    /\ lock = Reaper => ENABLED ReaperStep
    /\ (lock = Free /\ Waiting # {}) => ENABLED Grant

\* a handler is between the expiration check and the response, holding the
\* lock, while the other handler and the Reaper wait for it
C15_Witness ==
    /\ rpc = "wait"
    /\ \E p \in Handlers, q \in Handlers :
         /\ lock = p
         /\ pc[p] = "get_age"
         /\ pc[q] \in {"get_wait", "put_wait"}

\* ---------------------------------------------------------------------- C16
\* C16: the read gate and the sweep decide by one predicate, that of the
\* specification: a GET that finds a Record when the clock reads t answers
\* 404 iff the Record is expired at t, and a sweep that examines a Record
\* when the clock reads t removes it iff it is expired at t; so a GET hides
\* a Record exactly when a sweep examining it at that instant removes it.
C16_SamePredicate ==
    [][/\ \A p \in Handlers :
            (/\ pc[p] = "get_locked"
             /\ pc'[p] # "get_locked"
             /\ hash(hkey[p]) \in DOMAIN storage) =>
                /\ pc'[p] = "idle" <=> Expired(storage[hash(hkey[p])], now)
                /\ pc'[p] = "get_age" <=> ~Expired(storage[hash(hkey[p])], now)
       /\ \A id \in todo :
            (id \notin todo' /\ id \in DOMAIN storage) =>
                (id \notin DOMAIN storage' <=> Expired(storage[id], now))
      ]_vars

\* a GET has just hidden a Record at the first instant at which it is
\* expired, and the Reaper is about to sweep
C16_Witness ==
    /\ IsGet
    /\ ev.status = 404
    /\ rpc = "wait"
    /\ \E r \in ev.seen : r.expires # NoTtl /\ ev.at = Deadline(r) + 1 /\ now = ev.at

\* ---------------------------------------------------------------------- C17
\* C17: there is one instant of the sweep such that the Records the sweep
\* removed are exactly the Records of the store that were expired at that
\* instant, whatever the order of the visits and the advance of the clock
\* during the sweep.
C17_SingleInstant ==
    IsGc =>
      \E t \in 0..MaxTime :
        \A i \in DOMAIN ev.pre :
          i \notin DOMAIN ev.post <=> Expired(ev.pre[i], t)

\* ---------------------------------------------------------------------- C18
\* C18: a PUT leaves under its key a Record made of its own time, ttl,
\* content and content type only, whatever it replaces: the Record is not
\* expired when written and its age is 0; afterwards a GET is answered from
\* that Record alone (200 iff it is not expired, its content, its content
\* type or text/plain, the age since it was written), and a sweep keeps it
\* as long as it is not expired itself, even when the Record it replaced was.
C18_Wholesale ==
    /\ IsPut =>
         LET r == storage[hash(ev.key)] IN
         /\ r = ev.record
         /\ ~Expired(r, now)
         /\ (now - r.created) \div TicksPerSec = 0
    /\ IsGet =>
         \A l \in ev.lastput :
           /\ ev.seen # {} => (ev.status = 200 <=> ~Expired(l.record, ev.at))
           /\ ev.status = 200 =>
                /\ ev.body = l.record.content
                /\ ev.ctype = HeaderOf(l.record)
                /\ ev.age = (ev.agedAt - l.record.created) \div TicksPerSec
    /\ IsGc =>
         \A i \in DOMAIN ev.pre :
           ~Expired(last[i].record, ev.end) =>
               i \in DOMAIN storage /\ storage[i] = last[i].record

\* a PUT without ttl and without content type has replaced an expired
\* Record of the same key that had another content and a content type
C18_Witness ==
    /\ IsPut
    /\ ev.prior.state = "expired"
    /\ ev.prior.key = ev.key
    /\ ev.prior.content # ev.record.content
    /\ ev.record.expires = NoTtl
    /\ ev.record.content_type = NoType
    /\ storage[hash(ev.key)].expires = NoTtl

\* ---------------------------------------------------------------------- C19
\* C19: the store does not change between the lookup of a GET and its
\* response, and a 200 response is made of one Record, which is in the store
\* when the response is built and is the last one written under the key's
\* identifier: the body is its content, the Content-Type its content type
\* or text/plain, the Age the time since its creation.
C19_Snapshot ==
    [][/\ \A p \in Handlers :
            pc[p] \in {"get_locked", "get_age"} => storage' = storage
       /\ (ev'.kind = "get" /\ ev'.status = 200) =>
            /\ hash(ev'.key) \in DOMAIN storage'
            /\ ev'.seen = {storage'[hash(ev'.key)]}
            /\ \A r \in ev'.seen :
                 /\ ev'.lastput # {}
                 /\ \A l \in ev'.lastput : l.record = r
                 /\ ev'.body = r.content
                 /\ ev'.ctype = HeaderOf(r)
                 /\ ev'.age = (ev'.agedAt - r.created) \div TicksPerSec
                 /\ r.created <= ev'.at
                 /\ ev'.at <= ev'.agedAt
      ]_vars

\* a 200 response has been built, the clock having advanced since the
\* expiration check, while the other handler waits to write and the Reaper
\* waits to sweep
C19_Witness ==
    /\ IsGet
    /\ ev.status = 200
    /\ ev.agedAt > ev.at
    /\ rpc = "wait"
    /\ \E q \in Handlers : pc[q] = "put_wait"

\* ---------------------------------------------------------------------- C20
\* C20: a 200 response for a Record stored with ttl t carries an Age of at
\* least 0 and at most t.
C20_AgeWithinTtl ==
    (IsGet /\ ev.status = 200) =>
        \A r \in ev.seen :
            r.expires # NoTtl => (0 <= ev.age /\ ev.age <= r.expires)

====
